---- MODULE Spec2Model ----
(***************************************************************************)
(* Model of the Domain Availability Checker (src/app.py).                  *)
(*                                                                         *)
(* A string is a sequence of one-character strings; the characters that    *)
(* have no printable one-character TLA+ form are named: "SP" (space),      *)
(* "TAB", "CR" and "NL" (line feed).  Formatted output (links, prices) is  *)
(* a sequence of such characters and of literal fragments of the f-string  *)
(* that produces it.                                                       *)
(*                                                                         *)
(* create_domain_info is read as lines 143-148 followed by lines 300-327   *)
(* of src/app.py: the regular expression of line 148 is the one of lines   *)
(* 66, 115 and 127, cut in two by a copy of the rest of the file.          *)
(***************************************************************************)
EXTENDS Integers, Sequences, FiniteSets, TLC

VARIABLES
    mode,         \* which section of main() runs the batch: "file" or "manual"
    lines,        \* the lines the user wrote, before they are joined into text
    text,         \* file_contents / manual_domains
    pc,           \* position of the script run
    domains,      \* main: domains
    i,            \* main: loop index (number of completed iterations)
    results,      \* main: results
    domain_info,  \* main: domain_info, the record of the current iteration
    availability, \* create_domain_info: availability, as "True", "False", "None"
    progress,     \* values passed to progress_bar.progress, in call order
    lookups,      \* calls of whois.whois: [domain, outcome]
    world,        \* what DNS and HTTP say of the domain of the latest lookup
    errors,       \* st.error messages: the domains they name
    displayed,    \* the table rendered by st.markdown
    download,     \* the data handed to st.download_button
    arg,          \* argument of a direct call of estimate_price
    ret           \* its return value

vars == <<mode, lines, text, pc, domains, i, results, domain_info, availability,
          progress, lookups, world, errors, displayed, download, arg, ret>>

-----------------------------------------------------------------------------
(* Bounds *)

MaxLines == 2

MaxLen == 4

-----------------------------------------------------------------------------
(* Characters and strings *)

UpperSeq == <<"A","B","C","D","E","F","G","H","I","J","K","L","M",
              "N","O","P","Q","R","S","T","U","V","W","X","Y","Z">>

LowerSeq == <<"a","b","c","d","e","f","g","h","i","j","k","l","m",
              "n","o","p","q","r","s","t","u","v","w","x","y","z">>

LowerLetters == {LowerSeq[k] : k \in 1..Len(LowerSeq)}

Whitespace == {"SP", "TAB", "CR", "NL"}

LowerChar(c) ==
    IF \E k \in 1..Len(UpperSeq) : UpperSeq[k] = c
    THEN LowerSeq[CHOOSE k \in 1..Len(UpperSeq) : UpperSeq[k] = c]
    ELSE c

\* str.lower()
Lower(s) == [k \in 1..Len(s) |-> LowerChar(s[k])]

RECURSIVE LStrip(_)
LStrip(s) ==
    IF s = <<>> THEN s
    ELSE IF Head(s) \in Whitespace THEN LStrip(Tail(s)) ELSE s

RECURSIVE RStrip(_)
RStrip(s) ==
    IF s = <<>> THEN s
    ELSE IF s[Len(s)] \in Whitespace THEN RStrip(SubSeq(s, 1, Len(s) - 1)) ELSE s

\* str.strip()
Strip(s) == RStrip(LStrip(s))

RECURSIVE SplitNL(_)
\* str.split('\n')
SplitNL(s) ==
    IF \A k \in 1..Len(s) : s[k] # "NL" THEN <<s>>
    ELSE LET p == CHOOSE k \in 1..Len(s) :
                      s[k] = "NL" /\ \A j \in 1..(k - 1) : s[j] # "NL"
         IN  <<SubSeq(s, 1, p - 1)>> \o SplitNL(SubSeq(s, p + 1, Len(s)))

RECURSIVE JoinNL(_)
\* the text whose lines are ls
JoinNL(ls) ==
    IF Len(ls) = 0 THEN <<>>
    ELSE IF Len(ls) = 1 THEN ls[1]
    ELSE ls[1] \o <<"NL">> \o JoinNL(Tail(ls))

\* [domain for domain in text.split('\n') if domain.strip()]
ParseDomainsUnstripped(t) == SelectSeq(SplitNL(t), LAMBDA d : Strip(d) # <<>>)

\* [domain.strip() for domain in text.split('\n') if domain.strip()]
ParseDomains(t) ==
    LET parts == SplitNL(t)
        kept  == SelectSeq(parts, LAMBDA d : Strip(d) # <<>>)
    IN  [k \in 1..Len(kept) |-> Strip(kept[k])]

DigitSeq == <<"0","1","2","3","4","5","6","7","8","9">>

RECURSIVE Dec(_)
\* decimal form of a natural number, as an f-string writes it
Dec(n) == IF n < 10 THEN <<DigitSeq[n + 1]>>
          ELSE Dec(n \div 10) \o <<DigitSeq[(n % 10) + 1]>>

-----------------------------------------------------------------------------
(* DomainTLDs *)

SUPPORTED_TLDS == {
    <<".","c","o","m">>, <<".","o","r","g">>, <<".","n","e","t">>, <<".","i","o">>,
    <<".","c","o">>, <<".","a","d">>, <<".","a","e">>, <<".","a","f">>, <<".","a","g">>,
    <<".","a","i">>, <<".","a","l">>, <<".","a","m">>, <<".","a","r">>, <<".","a","t">>,
    <<".","a","u">>, <<".","b","a">>, <<".","b","e">>, <<".","b","g">>, <<".","b","o">>,
    <<".","b","r">>, <<".","b","w">>, <<".","b","y">>, <<".","b","z">>, <<".","c","a">>,
    <<".","c","l">>, <<".","c","n">>, <<".","c","o">>, <<".","c","r">>, <<".","c","u">>,
    <<".","c","v">>, <<".","c","z">>, <<".","d","e">>, <<".","d","k">>, <<".","d","o">>,
    <<".","d","z">>, <<".","e","c">>, <<".","e","e">>, <<".","e","g">>, <<".","e","s">>,
    <<".","f","i">>, <<".","f","r">>, <<".","g","e">>, <<".","g","h">>, <<".","g","r">>,
    <<".","g","t">>, <<".","h","k">>, <<".","h","n">>, <<".","h","t">>, <<".","h","u">>,
    <<".","i","d">>, <<".","i","e">>, <<".","i","l">>, <<".","i","n">>, <<".","i","q">>,
    <<".","i","r">>, <<".","i","s">>, <<".","i","t">>, <<".","j","p">>, <<".","k","e">>,
    <<".","k","r">>, <<".","k","w">>, <<".","k","y">>, <<".","l","b">>, <<".","l","i">>,
    <<".","l","t">>, <<".","l","u">>, <<".","l","v">>, <<".","m","a">>, <<".","m","c">>,
    <<".","m","d">>, <<".","m","e">>, <<".","m","g">>, <<".","m","k">>, <<".","m","m">>,
    <<".","m","n">>, <<".","m","x">>, <<".","m","y">>, <<".","n","a">>, <<".","n","g">>,
    <<".","n","i">>, <<".","n","l">>, <<".","n","o">>, <<".","n","z">>, <<".","p","a">>,
    <<".","p","e">>, <<".","p","h">>, <<".","p","k">>, <<".","p","l">>, <<".","p","t">>,
    <<".","p","y">>, <<".","q","a">>, <<".","r","o">>, <<".","r","s">>, <<".","r","u">>,
    <<".","r","w">>, <<".","s","a">>, <<".","s","c">>, <<".","s","e">>, <<".","s","g">>,
    <<".","s","v">>, <<".","s","y">>, <<".","t","h">>, <<".","t","n">>, <<".","t","r">>,
    <<".","u","a">>, <<".","u","g">>, <<".","u","k">>, <<".","u","s">>, <<".","u","y">>,
    <<".","u","z">>, <<".","v","e">>, <<".","v","n">>, <<".","z","a">>
    }

NoMatch == <<>>

\* the positions at which $ matches: the end, and before a final newline
EndPositions(s) ==
    {Len(s)} \cup (IF Len(s) >= 1 /\ s[Len(s)] = "NL" THEN {Len(s) - 1} ELSE {})

\* re.search(r'\.[a-z]+$', s): group(0) of the leftmost match, or NoMatch
TLDMatch(s) ==
    LET Hit(p, e) == /\ s[p] = "."
                     /\ e > p
                     /\ \A k \in (p + 1)..e : s[k] \in LowerLetters
        starts == {p \in 1..Len(s) : \E e \in EndPositions(s) : Hit(p, e)}
    IN  IF starts = {} THEN NoMatch
        ELSE LET p == CHOOSE q \in starts : \A r \in starts : q <= r
                 e == CHOOSE f \in EndPositions(s) : Hit(p, f)
             IN  SubSeq(s, p, e)

\* the TLD test of lines 127-128 and 148/300-301, without the membership test
ValidatedAnySuffix(domain) == TLDMatch(Lower(domain)) # NoMatch

\* not (not tld_match or tld_match.group(0) not in DomainTLDs.SUPPORTED_TLDS)
Validated(domain) ==
    LET m == TLDMatch(Lower(domain))
    IN  m # NoMatch /\ m \in SUPPORTED_TLDS

-----------------------------------------------------------------------------
(* DomainRegistrars *)

Registrars == {"GoDaddy", "Gandi"}

REGISTRARS_default ==
    [r \in Registrars |->
        IF r = "GoDaddy"
        THEN "https://www.godaddy.com/es-es/domainsearch/find?domainToCheck="
        ELSE "https://shop.gandi.net/en/domain/suggest?search="]

\* the keys of REGISTRARS['tld_specific']: the dictionary is empty
REGISTRARS_tld_specific == {}

\* urllib.parse.quote of one character
QuoteChar(c) ==
    CASE c = "SP"  -> <<"%", "2", "0">>
      [] c = "TAB" -> <<"%", "0", "9">>
      [] c = "NL"  -> <<"%", "0", "A">>
      [] c = "CR"  -> <<"%", "0", "D">>
      [] OTHER     -> <<c>>

RECURSIVE Quote(_)
\* urllib.parse.quote
Quote(s) == IF s = <<>> THEN <<>> ELSE QuoteChar(Head(s)) \o Quote(Tail(s))

get_purchase_link(domain, registrar) ==
    LET m    == TLDMatch(Lower(domain))
        tld  == IF m # NoMatch THEN m ELSE <<".", "c", "o", "m">>
        link == IF tld \in REGISTRARS_tld_specific
                THEN REGISTRARS_default[registrar]
                ELSE REGISTRARS_default[registrar]
    IN  <<link>> \o Quote(domain)

-----------------------------------------------------------------------------
(* DomainPriceEstimator *)

tld_prices == {
    [tld |-> <<".","c","o","m">>, min |-> 10, max |-> 20],
    [tld |-> <<".","o","r","g">>, min |-> 8,  max |-> 15],
    [tld |-> <<".","n","e","t">>, min |-> 9,  max |-> 18],
    [tld |-> <<".","i","o">>,     min |-> 30, max |-> 50],
    [tld |-> <<".","c","o">>,     min |-> 20, max |-> 30],
    [tld |-> <<".","u","k">>,     min |-> 5,  max |-> 15],
    [tld |-> <<".","u","s">>,     min |-> 5,  max |-> 15],
    [tld |-> <<".","c","a">>,     min |-> 10, max |-> 20],
    [tld |-> <<".","d","e">>,     min |-> 5,  max |-> 15],
    [tld |-> <<".","f","r">>,     min |-> 5,  max |-> 15],
    [tld |-> <<".","j","p">>,     min |-> 10, max |-> 30],
    [tld |-> <<".","a","u">>,     min |-> 10, max |-> 25],
    [tld |-> <<".","b","r">>,     min |-> 10, max |-> 25] }

\* tld_prices['default']
default_price == [min |-> 10, max |-> 20]

\* f"${price_range['min']} - ${price_range['max']}/year"
FormatPrice(range) ==
    <<"$">> \o Dec(range.min) \o <<" - ", "$">> \o Dec(range.max) \o <<"/year">>

\* tld_prices.get(tld, tld_prices['default'])
PriceRangeOf(tld) ==
    IF \E e \in tld_prices : e.tld = tld
    THEN LET e == CHOOSE x \in tld_prices : x.tld = tld
         IN  [min |-> e.min, max |-> e.max]
    ELSE default_price

\* estimate_price with the suffix taken from domain instead of domain.lower()
estimate_price_no_lower(domain) ==
    LET m   == TLDMatch(domain)
        tld == IF m # NoMatch THEN m ELSE <<".", "c", "o", "m">>
    IN  FormatPrice(PriceRangeOf(tld))

estimate_price(domain) ==
    LET m   == TLDMatch(Lower(domain))
        tld == IF m # NoMatch THEN m ELSE <<".", "c", "o", "m">>
    IN  FormatPrice(PriceRangeOf(tld))

-----------------------------------------------------------------------------
(* check_domain_availability *)

\* how a call of whois.whois ends
Outcomes == {"returned", "PywhoisError", "Exception"}

\* the try statement with the handlers of PywhoisError and Exception exchanged
try_whois_swapped(outcome) ==
    CASE outcome = "returned"     -> "False"
      [] outcome = "PywhoisError" -> "None"
      [] outcome = "Exception"    -> "True"
      [] OTHER                    -> "raise"

\* the try statement without its except Exception clause
try_whois_uncaught(outcome) ==
    CASE outcome = "returned"     -> "False"
      [] outcome = "PywhoisError" -> "True"
      [] OTHER                    -> "raise"

\* the try statement returning True where a record was retrieved
try_whois_inverted(outcome) ==
    CASE outcome = "returned"     -> "True"
      [] outcome = "PywhoisError" -> "False"
      [] outcome = "Exception"    -> "None"
      [] OTHER                    -> "raise"

\* the value the try statement returns, "raise" when no clause catches
try_whois(outcome) ==
    CASE outcome = "returned"     -> "False"
      [] outcome = "PywhoisError" -> "True"
      [] outcome = "Exception"    -> "None"
      [] OTHER                    -> "raise"

\* st.error is called in the except Exception clause only
reports_error(outcome) == outcome = "Exception"

-----------------------------------------------------------------------------
(* create_domain_info *)

Placeholder == <<"-">>

\* f'<a href="{url}" target="_blank">{label} on {registrar}</a>'
Anchor(url, label, registrar) ==
    <<"<a href=", "QUOTE">> \o url \o
    <<"QUOTE", " target=", "QUOTE", "_blank", "QUOTE", ">",
      label, " on ", registrar, "</a>">>

UnsupportedRecord(domain) ==
    [Domain         |-> domain,
     Availability   |-> "Unsupported TLD",
     GoDaddyLink    |-> Placeholder,
     GandiLink      |-> Placeholder,
     EstimatedPrice |-> Placeholder]

\* the Error record with the placeholders of the Unsupported-TLD record
ErrorRecordBare(domain) ==
    [Domain         |-> domain,
     Availability   |-> "Error",
     GoDaddyLink    |-> Placeholder,
     GandiLink      |-> Placeholder,
     EstimatedPrice |-> Placeholder]

ErrorRecord(domain) ==
    [Domain         |-> domain,
     Availability   |-> "Error",
     GoDaddyLink    |-> Anchor(get_purchase_link(domain, "GoDaddy"), "Check", "GoDaddy"),
     GandiLink      |-> Anchor(get_purchase_link(domain, "Gandi"), "Check", "Gandi"),
     EstimatedPrice |-> estimate_price(domain)]

\* avail (availability) is "True" or "False"
ResultRecord(domain, avail) ==
    LET label == IF avail = "True" THEN "Buy" ELSE "Check"
    IN  [Domain         |-> domain,
         Availability   |-> IF avail = "True" THEN "Available" ELSE "Registered",
         GoDaddyLink    |-> Anchor(get_purchase_link(domain, "GoDaddy"), label, "GoDaddy"),
         GandiLink      |-> Anchor(get_purchase_link(domain, "Gandi"), label, "Gandi"),
         EstimatedPrice |-> estimate_price(domain)]

\* create_domain_info after check_domain_avail has returned
RecordFor(domain, avail) ==
    IF avail = "None" THEN ErrorRecord(domain)
    ELSE ResultRecord(domain, avail)

-----------------------------------------------------------------------------
(* main *)

\* (i + 1) / len(domains) with the index one too low
ProgressValueLate(idx, n) == <<idx, n>>

\* (i + 1) / len(domains), as the fraction <<numerator, denominator>>
ProgressValue(idx, n) == <<idx + 1, n>>

\* domain_info before the first iteration
NoInfo ==
    [Domain         |-> <<>>,
     Availability   |-> "unset",
     GoDaddyLink    |-> <<>>,
     GandiLink      |-> <<>>,
     EstimatedPrice |-> <<>>]

NoWorld == [dns |-> "none", http |-> "none"]

Signals == {"Available", "Registered", "Indeterminate"}

\* the lines of the inputs
Alphabet == {"i", "O", "n", ".", "SP", "1"}

StringsUpTo(n) == UNION {[1..k -> Alphabet] : k \in 0..n}

SampleLines == {
    <<"a", ".", "c", "o", "m">>,
    <<"SP", "B", ".", "I", "O", "CR">>,
    <<"b", "SP", "c", ".", "d", "e">>,
    <<"x", ".", "z", "z">>,
    <<>>,
    <<"SP", "TAB">> }

BatchInputs ==
    UNION {[1..k -> SampleLines] : k \in 0..MaxLines}
    \cup {<<s>> : s \in StringsUpTo(MaxLen)}

InitBatch ==
    /\ mode \in {"file", "manual"}
    /\ lines \in BatchInputs
    /\ text = JoinNL(lines)
    /\ pc = "start"
    /\ domains = <<>>
    /\ i = 0
    /\ results = <<>>
    /\ domain_info = NoInfo
    /\ availability = "unset"
    /\ progress = <<>>
    /\ lookups = <<>>
    /\ world = NoWorld
    /\ errors = <<>>
    /\ displayed = <<>>
    /\ download = <<>>
    /\ arg = <<>>
    /\ ret = <<>>

Init == InitBatch

\* if uploaded_file is not None: ... if domains: ... else: st.warning
ReadFile ==
    /\ pc = "start"
    /\ mode = "file"
    /\ domains' = ParseDomains(text)
    /\ pc' = IF domains' # <<>> THEN "loop" ELSE "warned"
    /\ UNCHANGED <<mode, lines, text, i, results, domain_info, availability, progress, lookups,
                   world, errors, displayed, download, arg, ret>>

\* if st.button(...): if manual_domains: ...
ReadManual ==
    /\ pc = "start"
    /\ mode = "manual"
    /\ IF text # <<>>
       THEN domains' = ParseDomains(text) /\ pc' = "loop"
       ELSE domains' = domains /\ pc' = "idle"
    /\ UNCHANGED <<mode, lines, text, i, results, domain_info, availability, progress, lookups,
                   world, errors, displayed, download, arg, ret>>

\* the loop takes its next domain and calls create_domain_info, up to the
\* return of the Unsupported-TLD record or the call of whois.whois
LoopNext ==
    /\ pc = "loop"
    /\ i < Len(domains)
    /\ LET domain == domains[i + 1]
       IN  IF ~Validated(domain)
           THEN /\ domain_info' = UnsupportedRecord(domain)
                /\ pc' = "append"
                /\ UNCHANGED <<lookups, availability, world>>
           ELSE IF ~Validated(domain)   \* check_domain_availability validates again
                THEN /\ availability' = "None"
                     /\ domain_info' = RecordFor(domain, "None")
                     /\ pc' = "append"
                     /\ UNCHANGED <<lookups, world>>
                ELSE /\ lookups' = Append(lookups, [domain |-> domain, outcome |-> "pending"])
                     /\ \E dns \in Signals, http \in Signals :
                            world' = [dns |-> dns, http |-> http]
                     /\ pc' = "whois"
                     /\ UNCHANGED <<domain_info, availability>>
    /\ UNCHANGED <<mode, lines, text, domains, i, results, progress, errors,
                   displayed, download, arg, ret>>

\* whois.whois returns or raises; check_domain_availability and
\* create_domain_info run to their return
WhoisReturn ==
    /\ pc = "whois"
    /\ \E outcome \in Outcomes :
         LET domain == domains[i + 1]
             value  == try_whois(outcome)
         IN  /\ lookups' = [lookups EXCEPT ![Len(lookups)].outcome = outcome]
             /\ errors' = IF reports_error(outcome) THEN Append(errors, domain) ELSE errors
             /\ IF value = "raise"
                THEN pc' = "crashed" /\ UNCHANGED <<domain_info, availability>>
                ELSE /\ pc' = "append"
                     /\ availability' = value
                     /\ domain_info' = RecordFor(domain, value)
    /\ UNCHANGED <<mode, lines, text, domains, i, results, progress, world,
                   displayed, download, arg, ret>>

\* whois.whois is called with no timeout: the server may never answer
WhoisHang ==
    /\ pc = "whois"
    /\ pc' = "hung"
    /\ UNCHANGED <<mode, lines, text, domains, i, results, domain_info, availability, progress,
                   lookups, world, errors, displayed, download, arg, ret>>

\* results.append(domain_info)
AppendResult ==
    /\ pc = "append"
    /\ results' = Append(results, domain_info)
    /\ pc' = "progress"
    /\ UNCHANGED <<mode, lines, text, domains, i, domain_info, availability, progress, lookups,
                   world, errors, displayed, download, arg, ret>>

\* progress_bar.progress((i + 1) / len(domains)), and the loop's increment
UpdateProgress ==
    /\ pc = "progress"
    /\ progress' = Append(progress, ProgressValue(i, Len(domains)))
    /\ i' = i + 1
    /\ pc' = "loop"
    /\ UNCHANGED <<mode, lines, text, domains, results, domain_info, availability, lookups, world,
                   errors, displayed, download, arg, ret>>

LoopExit ==
    /\ pc = "loop"
    /\ i = Len(domains)
    /\ pc' = "render"
    /\ UNCHANGED <<mode, lines, text, domains, i, results, domain_info, availability, progress,
                   lookups, world, errors, displayed, download, arg, ret>>

\* df = pd.DataFrame(results); st.markdown(...); st.download_button(...)
Render ==
    /\ pc = "render"
    /\ displayed' = results
    /\ download' = results
    /\ pc' = "done"
    /\ UNCHANGED <<mode, lines, text, domains, i, results, domain_info, availability, progress,
                   lookups, world, errors, arg, ret>>

\* the script run is stopped inside the loop (a rerun or stop request of the
\* Streamlit runtime, an interrupt): the statements after the loop never run
Abort ==
    /\ pc \in {"loop", "whois", "append", "progress"}
    /\ i < Len(domains)
    /\ pc' = "aborted"
    /\ UNCHANGED <<mode, lines, text, domains, i, results, domain_info, availability, progress,
                   lookups, world, errors, displayed, download, arg, ret>>

Step ==
    \/ ReadFile
    \/ ReadManual
    \/ LoopNext
    \/ WhoisReturn
    \/ AppendResult
    \/ UpdateProgress
    \/ LoopExit
    \/ Render

Next ==
    \/ Step
    \/ WhoisHang
    \/ Abort

Spec == Init /\ [][Next]_vars

\* a direct call of estimate_price on any string
InitUnit ==
    /\ pc = "unit"
    /\ arg \in StringsUpTo(MaxLen)
    /\ ret = <<>>
    /\ mode = "unit"
    /\ lines = <<>>
    /\ text = <<>>
    /\ domains = <<>>
    /\ i = 0
    /\ results = <<>>
    /\ domain_info = NoInfo
    /\ availability = "unset"
    /\ progress = <<>>
    /\ lookups = <<>>
    /\ world = NoWorld
    /\ errors = <<>>
    /\ displayed = <<>>
    /\ download = <<>>

CallEstimatePrice ==
    /\ pc = "unit"
    /\ ret' = estimate_price(arg)
    /\ pc' = "returned"
    /\ UNCHANGED <<mode, lines, text, domains, i, results, domain_info, availability, progress,
                   lookups, world, errors, displayed, download, arg>>

NextUnit == CallEstimatePrice

UnitSpec == InitUnit /\ [][NextUnit]_vars

-----------------------------------------------------------------------------
(* Properties *)

\* the suffix of a domain: its last dot-segment, case-folded (<<>> without a dot)
Suffix(d) ==
    LET l    == Lower(d)
        dots == {k \in 1..Len(l) : l[k] = "."}
    IN  IF dots = {} THEN <<>>
        ELSE SubSeq(l, CHOOSE k \in dots : \A j \in dots : j <= k, Len(l))

SuffixSupported(d) == Suffix(d) \in SUPPORTED_TLDS

\* the records built so far: those appended, and the one about to be appended
BuiltRecords == {results[k] : k \in 1..Len(results)}
                \cup (IF pc = "append" THEN {domain_info} ELSE {})

\* C1: a domain whose suffix is not a supported TLD is never passed to
\* whois.whois, and its record is the Unsupported-TLD record with "-" for both
\* links and for the price.
C1_UnsupportedNeverProbed ==
    /\ \A rec \in BuiltRecords :
         ~SuffixSupported(rec.Domain) =>
            /\ rec.Availability = "Unsupported TLD"
            /\ rec.GoDaddyLink = <<"-">>
            /\ rec.GandiLink = <<"-">>
            /\ rec.EstimatedPrice = <<"-">>
    /\ \A k \in 1..Len(lookups) : SuffixSupported(lookups[k].domain)
    /\ pc = "whois" => SuffixSupported(domains[i + 1])

\* a finished batch with an unsupported domain next to a probed one
C1_Witness ==
    /\ pc = "done"
    /\ Len(lookups) > 0
    /\ \E k \in 1..Len(results) :
         /\ ~SuffixSupported(results[k].Domain)
         /\ results[k].Availability = "Unsupported TLD"

IsBlank(l) == \A k \in 1..Len(l) : l[k] \in Whitespace

\* s is l without its leading and trailing whitespace
IsStrippedOf(s, l) ==
    \E a \in 1..Len(l) : \E b \in a..Len(l) :
        /\ s = SubSeq(l, a, b)
        /\ l[a] \notin Whitespace
        /\ l[b] \notin Whitespace
        /\ \A k \in 1..(a - 1) : l[k] \in Whitespace
        /\ \A k \in (b + 1)..Len(l) : l[k] \in Whitespace

\* C2: when the loop has finished, results has one record per non-blank input
\* line, in order, and the k-th record's Domain is the k-th non-blank line
\* stripped; blank lines give no record.
C2_OneRecordPerNonBlankLine ==
    pc \in {"render", "done"} =>
        LET nonblank == SelectSeq(lines, LAMBDA l : ~IsBlank(l))
        IN  /\ Len(results) = Len(nonblank)
            /\ \A k \in 1..Len(nonblank) : IsStrippedOf(results[k].Domain, nonblank[k])

\* a finished batch in which a blank line was dropped and a line was stripped
C2_Witness ==
    /\ pc = "done"
    /\ Len(results) >= 1
    /\ Len(lines) > Len(results)
    /\ \E k \in 1..Len(lines) : lines[k] # <<>> /\ IsBlank(lines[k])
    /\ \E k \in 1..Len(lines) : ~IsBlank(lines[k]) /\ results[1].Domain # lines[k]

\* link is the anchor of the registrar's search URL for the percent-encoded domain
IsRealLink(link, registrar, domain) ==
    /\ link # <<"-">>
    /\ Len(link) >= 3 + Len(Quote(domain))
    /\ link[1] = "<a href="
    /\ link[3] = REGISTRARS_default[registrar]
    /\ SubSeq(link, 4, 3 + Len(Quote(domain))) = Quote(domain)
    /\ link[Len(link)] = "</a>"

\* price is a "$<min> - $<max>/year" text
IsRealPrice(price) ==
    /\ price # <<"-">>
    /\ Len(price) >= 6
    /\ price[1] = "$"
    /\ price[Len(price)] = "/year"
    /\ \E k \in 2..(Len(price) - 2) : price[k] = " - " /\ price[k + 1] = "$"

\* C8: the record of a domain that passes TLD validation carries a real price
\* and a real link for each of the two registrars, never "-", whether it is
\* classified Available, Registered or Error.
C8_ValidatedHasLinksAndPrice ==
    \A rec \in BuiltRecords :
        SuffixSupported(rec.Domain) =>
            /\ rec.Availability \in {"Available", "Registered", "Error"}
            /\ IsRealLink(rec.GoDaddyLink, "GoDaddy", rec.Domain)
            /\ IsRealLink(rec.GandiLink, "Gandi", rec.Domain)
            /\ IsRealPrice(rec.EstimatedPrice)

\* a finished batch with an Error record that carries links and a price
C8_Witness ==
    /\ pc = "done"
    /\ \E k \in 1..Len(results) :
         /\ results[k].Availability = "Error"
         /\ results[k].GoDaddyLink # <<"-">>
         /\ results[k].EstimatedPrice # <<"-">>

\* the plurality rule of the three-probe design: Available votes against
\* Registered votes, Indeterminate counting toward neither
Vote(signals) ==
    LET a == Cardinality({k \in 1..Len(signals) : signals[k] = "Available"})
        r == Cardinality({k \in 1..Len(signals) : signals[k] = "Registered"})
    IN  IF a > r THEN "Available" ELSE IF r > a THEN "Registered" ELSE "Uncertain"

\* the signal a lookup's outcome stands for
WhoisSignal(outcome) ==
    CASE outcome = "returned"     -> "Registered"
      [] outcome = "PywhoisError" -> "Available"
      [] OTHER                    -> "Indeterminate"

\* the classification as the record words it: the uncertain outcome is 'Error'
ClassName(class) == IF class = "Uncertain" THEN "Error" ELSE class

\* the record about to be appended was built from a lookup that has ended
ProbedRecordReady ==
    /\ pc = "append"
    /\ domain_info.Availability # "Unsupported TLD"
    /\ Len(lookups) > 0

LastLookup == lookups[Len(lookups)]

ExceptionLookups == SelectSeq(lookups, LAMBDA l : l.outcome = "Exception")

C5_NoOutcomeStopsTheBatch ==
    /\ [](pc # "crashed")
    /\ [](\A k \in 1..Len(results) : k <= Len(domains) /\ results[k].Domain = domains[k])
    /\ [](pc \in {"loop", "whois", "append"} => Len(results) = i)
    /\ [](pc = "progress" => Len(results) = i + 1)
    /\ [](pc \in {"render", "done"} => Len(results) = Len(domains))
    /\ [][(pc = "whois" /\ LastLookup'.outcome # "pending")
            => (pc' = "append" /\ domain_info'.Domain = domains[i + 1])]_vars
    /\ [][pc = "append" /\ pc' # "aborted"
            => (results' = Append(results, domain_info) /\ pc' = "progress")]_vars

\* a batch completed although its first lookup raised and its second did not
C5_Witness ==
    /\ pc = "done"
    /\ Len(lookups) >= 2
    /\ lookups[1].outcome = "Exception"
    /\ lookups[2].outcome # "Exception"
    /\ Len(results) = Len(domains)

\* C6: a lookup that never returns still yields a signal: a run that waits on
\* such a lookup can take its next step (the timeout ends the wait), so that
\* the batch goes on to the domains after it and completes.
C6_Original == pc = "hung" => ENABLED Step

\* C7: when a batch is aborted, the records of the domains resolved before the
\* abort are delivered (displayed and exportable), in input order.
C7_Original ==
    pc = "aborted" => (displayed = results /\ download = results)

\* the default range
DefaultRange == [min |-> 10, max |-> 20]

\* the range the price table gives a suffix, the default range without an entry
ExpectedRange(suffix) ==
    IF \E e \in tld_prices : e.tld = suffix
    THEN LET e == CHOOSE x \in tld_prices : x.tld = suffix
         IN  [min |-> e.min, max |-> e.max]
    ELSE DefaultRange

\* C9: estimate_price returns "$<min> - $<max>/year" with the table entry of
\* the domain's case-folded suffix when there is one, and with the default
\* range 10-20 otherwise, also when the domain has no alphabetic suffix.
C9_PriceBySuffix ==
    pc = "returned" =>
        LET range == ExpectedRange(Suffix(arg))
        IN  /\ ret = <<"$">> \o Dec(range.min) \o <<" - ", "$">> \o Dec(range.max)
                       \o <<"/year">>
            /\ Suffix(arg) = <<".", "i", "o">> =>
                 ret = <<"$", "3", "0", " - ", "$", "5", "0", "/year">>
            /\ Suffix(arg) # <<".", "i", "o">> =>
                 ret = <<"$", "1", "0", " - ", "$", "2", "0", "/year">>

\* the .io range was returned for a domain written in upper case
C9_Witness ==
    /\ pc = "returned"
    /\ arg # Lower(arg)
    /\ Suffix(arg) = <<".", "i", "o">>
    /\ ret = <<"$", "3", "0", " - ", "$", "5", "0", "/year">>

====
